---- MODULE Spec2Model ----
(***************************************************************************)
(* Model of the cache store of cache.go: a sync.Map of CachedItem guarded  *)
(* by no other lock, a background cleanup goroutine (the Sweeper) driven   *)
(* by a ticker and a cancellable context, and the public operations        *)
(* NewCacheStore, Get, Set, Iterate, RemoveKey and CloseCacheStore called  *)
(* from concurrent callers.  Every sync.Map call (Load, Store, Delete, one *)
(* callback of Range) and every time.Now() is one atomic step; the code    *)
(* between them interleaves freely with the other goroutines.              *)
(***************************************************************************)
EXTENDS Integers, FiniteSets, Sequences, TLC

\* ---------------------------------------------------------------- bounds
Nil == "nil"
KeyOrder == <<"k1", "k2">>
ValOrder == <<"v1", "v2">>
Keys == {KeyOrder[i] : i \in DOMAIN KeyOrder}
Vals == {ValOrder[i] : i \in DOMAIN ValOrder}
Callers == {"c1", "c2"}
\* the callers that issue operations in Spec
Foreground == {"c1"}
MaxTime == 3
MaxOps == 3

\* int64, scaled down: the largest representable nanosecond count
MaxInt64 == 7
Durations == {-1, 0, 1, MaxInt64}
Intervals == {-1, 0, 1}

\* ------------------------------------------------------- data structures
VARIABLES store, cleaningInterval, cancelled, sweepers,
          items, clock, nextTick, tickPending,
          swPc, currentTime, swRange, swKey,
          pc, loc, ret, lastVisit, ops

vars == <<store, cleaningInterval, cancelled, sweepers,
          items, clock, nextTick, tickPending,
          swPc, currentTime, swRange, swKey,
          pc, loc, ret, lastVisit, ops>>

CachedItem(d, e) == [data |-> d, expires |-> e]
NoItem == CachedItem(Nil, 0)
EmptyMap == [k \in {} |-> NoItem]

\* sync.Map operations
StoreKeepsExpiration(m, k, it) ==
    [x \in (DOMAIN m) \cup {k} |->
        IF x = k THEN (IF k \in DOMAIN m THEN [it EXCEPT !.expires = m[k].expires] ELSE it)
        ELSE m[x]]
Store(m, k, it) == [x \in (DOMAIN m) \cup {k} |-> IF x = k THEN it ELSE m[x]]
DeleteKeepsPermanent(m, k) ==
    IF k \in DOMAIN m /\ m[k].expires = 0 THEN m ELSE [x \in (DOMAIN m) \ {k} |-> m[x]]
DeleteClearsMap(m, k) == [x \in {} |-> m[x]]
Delete(m, k) == [x \in (DOMAIN m) \ {k} |-> m[x]]

\* int64 arithmetic wraps around
WrapInt64(x) == ((x + MaxInt64 + 1) % (2 * (MaxInt64 + 1))) - (MaxInt64 + 1)

\* time.Now().Add(duration).UnixNano() when duration > 0, the zero value otherwise
SetExpires(now, duration) == IF duration > 0 THEN WrapInt64(now + duration) ELSE 0

\* the three expiry tests of the code
SweeperExpiredLate(item, now) == item.expires > 0 /\ now > item.expires + 1
SweeperExpired(item, now) == item.expires > 0 /\ now > item.expires
GetExpiredAtDeadline(item, now) == item.expires > 0 /\ now >= item.expires
GetExpiredLate(item, now) == item.expires > 0 /\ now > item.expires + 1
GetExpired(item, now) == item.expires > 0 /\ now > item.expires
IterateExpiredAtDeadline(item, now) == item.expires > 0 /\ now >= item.expires
IterateExpired(item, now) == item.expires > 0 /\ now > item.expires

\* One sync.Map.Range call in progress.  must is the set of keys that were
\* present when the call started and have not been handed to the callback yet
\* (Range visits them unless they are deleted first), seen the keys already
\* handed to the callback (no key is visited twice); a key stored during the
\* call may or may not be visited.  Range
\* reads the receiver once, so when CloseCacheStore replaces the map under a
\* running Range the call keeps walking the replaced map (det, old).
NoRange == [must |-> {}, seen |-> {}, det |-> FALSE, old |-> EmptyMap]
RangeStart(m) == [must |-> DOMAIN m, seen |-> {}, det |-> FALSE, old |-> EmptyMap]
RangeMap(r) == IF r.det THEN r.old ELSE items
RangeCandidates(r) == (DOMAIN RangeMap(r)) \ r.seen
RangeDone(r) == r.must \cap DOMAIN RangeMap(r) = {}
RangeVisit(r, k) == [r EXCEPT !.must = @ \ {k}, !.seen = @ \cup {k}]
RangeDetach(r, m) == IF r.det THEN r ELSE [r EXCEPT !.det = TRUE, !.old = m]

NoLoc == [key |-> Nil, item |-> NoItem, time |-> 0, range |-> NoRange]
\* what a call returned, with the arguments it was given (for Set, expires is
\* the expiration it stored)
NoRet == [op |-> "none", key |-> Nil, data |-> Nil, expires |-> 0, found |-> FALSE, err |-> FALSE]
Ret(o, k, d, x, f, e) == [op |-> o, key |-> k, data |-> d, expires |-> x, found |-> f, err |-> e]
NoVisit == [caller |-> Nil, key |-> Nil, data |-> Nil, expires |-> 0, at |-> 0]

\* Keys and values are opaque to the store (interface{}): it only compares
\* keys for equality and never looks into a value.  A behaviour that differs
\* from another only by a renaming of keys or of values is therefore explored
\* once: a call may name any key (value) that occurs somewhere in the state,
\* and of those that occur nowhere only the first in KeyOrder (ValOrder).
RangeKeys(r) == r.must \cup r.seen \cup DOMAIN r.old
RangeVals(r) == {r.old[k].data : k \in DOMAIN r.old}
UsedKeys ==
    DOMAIN items \cup {swKey, lastVisit.key} \cup RangeKeys(swRange)
        \cup UNION {{loc[c].key, ret[c].key} \cup RangeKeys(loc[c].range) : c \in Callers}
UsedVals ==
    {items[k].data : k \in DOMAIN items} \cup {lastVisit.data} \cup RangeVals(swRange)
        \cup UNION {{loc[c].item.data, ret[c].data} \cup RangeVals(loc[c].range) : c \in Callers}
FirstUnused(order, used) ==
    LET unused == {i \in DOMAIN order : order[i] \notin used}
    IN {order[i] : i \in {j \in unused : \A l \in unused : j <= l}}
KeyChoices == (Keys \cap UsedKeys) \cup FirstUnused(KeyOrder, UsedKeys)
ValChoices == (Vals \cap UsedVals) \cup FirstUnused(ValOrder, UsedVals)

storeVars == <<store, cleaningInterval, cancelled, sweepers>>
tickVars == <<clock, nextTick, tickPending>>
sweeperVars == <<swPc, currentTime, swRange, swKey>>

Init ==
    /\ store = "nil"
    /\ cleaningInterval = 0
    /\ cancelled = FALSE
    /\ sweepers = 0
    /\ items = EmptyMap
    /\ clock = 1
    /\ nextTick = 0
    /\ tickPending = FALSE
    /\ swPc = "none"
    /\ currentTime = 0
    /\ swRange = NoRange
    /\ swKey = Nil
    /\ pc = [c \in Callers |-> "idle"]
    /\ loc = [c \in Callers |-> NoLoc]
    /\ ret = [c \in Callers |-> NoRet]
    /\ lastVisit = NoVisit
    /\ ops = 0

\* ------------------------------------------------------------ the clock
\* Time passes; the Sweeper's ticker delivers a tick into its one-slot
\* channel every cleaningInterval while the Sweeper goroutine is alive.
AdvanceClock ==
    /\ clock < MaxTime
    /\ clock' = clock + 1
    /\ IF swPc \notin {"none", "stopped"} /\ clock + 1 >= nextTick
       THEN /\ tickPending' = TRUE
            /\ nextTick' = nextTick + cleaningInterval
       ELSE UNCHANGED <<tickPending, nextTick>>
    /\ UNCHANGED ret
    /\ lastVisit' = NoVisit
    /\ UNCHANGED <<storeVars, items, sweeperVars, pc, loc, ops>>

\* ---------------------------------------------------------- construction
\* the guard of NewCacheStore: cleaningInterval <= 0 is rejected
IntervalValidNonNegative(interval) == ~(interval < 0)
IntervalValid(interval) == ~(interval <= 0)

NewCacheStore(c, interval) ==
    /\ store = "nil"
    /\ pc[c] = "idle"
    /\ IF ~IntervalValid(interval)
       THEN /\ ret' = [ret EXCEPT ![c] = Ret("new", Nil, Nil, 0, FALSE, TRUE)]
            /\ UNCHANGED <<storeVars, items, tickVars, sweeperVars>>
       ELSE /\ store' = "open"
            /\ cleaningInterval' = interval
            /\ cancelled' = FALSE
            /\ sweepers' = sweepers + 1
            /\ items' = EmptyMap
            /\ swPc' = "select"
            /\ nextTick' = clock + interval
            /\ tickPending' = FALSE
            /\ ret' = [ret EXCEPT ![c] = Ret("new", Nil, Nil, 0, FALSE, FALSE)]
            /\ UNCHANGED <<clock, currentTime, swRange, swKey>>
    /\ lastVisit' = NoVisit
    /\ UNCHANGED <<pc, loc, ops>>

\* -------------------------------------------------------------- Sweeper
\* case <-ticker.C: capture the time once and start the Range
SweeperTick ==
    /\ swPc = "select"
    /\ tickPending
    /\ tickPending' = FALSE
    /\ currentTime' = clock
    /\ swRange' = RangeStart(items)
    /\ swPc' = "range"
    /\ UNCHANGED ret
    /\ lastVisit' = NoVisit
    /\ UNCHANGED <<storeVars, items, clock, nextTick, swKey, pc, loc, ops>>

\* a Sweeper that drains the ticker instead of returning on ctx.Done()
SweeperStopKeepsWaiting ==
    /\ swPc = "select"
    /\ cancelled
    /\ tickPending
    /\ tickPending' = FALSE
    /\ UNCHANGED ret
    /\ lastVisit' = NoVisit
    /\ UNCHANGED <<storeVars, items, clock, nextTick, sweeperVars, pc, loc, ops>>

\* case <-cacheStore.ctx.Done(): return (and the deferred ticker.Stop())
SweeperStop ==
    /\ swPc = "select"
    /\ cancelled
    /\ swPc' = "stopped"
    /\ tickPending' = FALSE
    /\ UNCHANGED ret
    /\ lastVisit' = NoVisit
    /\ UNCHANGED <<storeVars, items, clock, nextTick, currentTime, swRange, swKey, pc, loc, ops>>

\* one callback of the Sweeper's Range: the expiry test
SweeperVisit(k) ==
    /\ swPc = "range"
    /\ k \in RangeCandidates(swRange)
    /\ swRange' = RangeVisit(swRange, k)
    /\ IF SweeperExpired(RangeMap(swRange)[k], currentTime)
       THEN swPc' = "delete" /\ swKey' = k
       ELSE UNCHANGED <<swPc, swKey>>
    /\ UNCHANGED ret
    /\ lastVisit' = NoVisit
    /\ UNCHANGED <<storeVars, items, tickVars, currentTime, pc, loc, ops>>

\* cacheStore.items.Delete(key) inside the callback
SweeperDelete ==
    /\ swPc = "delete"
    /\ items' = Delete(items, swKey)
    /\ swPc' = "range"
    /\ swKey' = Nil
    /\ UNCHANGED ret
    /\ lastVisit' = NoVisit
    /\ UNCHANGED <<storeVars, tickVars, currentTime, swRange, pc, loc, ops>>

\* the Range returns, back to the select
SweeperRangeEnd ==
    /\ swPc = "range"
    /\ RangeDone(swRange)
    /\ swPc' = "select"
    /\ swRange' = NoRange
    /\ currentTime' = 0
    /\ UNCHANGED ret
    /\ lastVisit' = NoVisit
    /\ UNCHANGED <<storeVars, items, tickVars, swKey, pc, loc, ops>>

\* ------------------------------------------------------------------ Get
\* a caller invokes an operation of a constructed store
Call(c) ==
    /\ store = "open"
    /\ pc[c] = "idle"
    /\ ops < MaxOps
    /\ ops' = ops + 1

\* nil check and cacheStore.items.Load(key)
Get(c, key) ==
    /\ Call(c)
    /\ IF key = Nil
       THEN /\ ret' = [ret EXCEPT ![c] = Ret("get", key, Nil, 0, FALSE, TRUE)]
            /\ UNCHANGED <<pc, loc>>
       ELSE IF key \notin DOMAIN items
       THEN /\ ret' = [ret EXCEPT ![c] = Ret("get", key, Nil, 0, FALSE, FALSE)]
            /\ UNCHANGED <<pc, loc>>
       ELSE /\ pc' = [pc EXCEPT ![c] = "getCheck"]
            /\ loc' = [loc EXCEPT ![c] = [NoLoc EXCEPT !.key = key, !.item = items[key]]]
            /\ UNCHANGED ret
    /\ lastVisit' = NoVisit
    /\ UNCHANGED <<storeVars, items, tickVars, sweeperVars>>

\* item.expires > 0 && time.Now().UnixNano() > item.expires
GetCheck(c) ==
    /\ pc[c] = "getCheck"
    /\ IF GetExpired(loc[c].item, clock)
       THEN /\ pc' = [pc EXCEPT ![c] = "getDelete"]
            /\ UNCHANGED ret
            /\ UNCHANGED loc
       ELSE /\ pc' = [pc EXCEPT ![c] = "idle"]
            /\ ret' = [ret EXCEPT ![c] = Ret("get", loc[c].key, loc[c].item.data, loc[c].item.expires, TRUE, FALSE)]
            /\ loc' = [loc EXCEPT ![c] = NoLoc]
    /\ lastVisit' = NoVisit
    /\ UNCHANGED <<storeVars, items, tickVars, sweeperVars, ops>>

\* cacheStore.items.Delete(key); return nil, false, nil
GetDelete(c) ==
    /\ pc[c] = "getDelete"
    /\ items' = Delete(items, loc[c].key)
    /\ ret' = [ret EXCEPT ![c] = Ret("get", loc[c].key, Nil, 0, FALSE, FALSE)]
    /\ pc' = [pc EXCEPT ![c] = "idle"]
    /\ loc' = [loc EXCEPT ![c] = NoLoc]
    /\ lastVisit' = NoVisit
    /\ UNCHANGED <<storeVars, tickVars, sweeperVars, ops>>

\* ------------------------------------------------------------------ Set
\* The two nil checks of Set: key == nil, then value == nil.
SetArgsNilKeyOnly(key, value) == key = Nil
SetArgsNil(key, value) == key = Nil \/ value = Nil

\* nil checks, expires from time.Now(), cacheStore.items.Store, return nil.
\* Between the reading of the clock and the Store the caller touches nothing
\* shared, so the two are one step.
Set(c, key, value, duration) ==
    /\ Call(c)
    /\ IF SetArgsNil(key, value)
       THEN /\ ret' = [ret EXCEPT ![c] = Ret("set", key, value, 0, FALSE, TRUE)]
            /\ UNCHANGED items
       ELSE /\ items' = Store(items, key, CachedItem(value, SetExpires(clock, duration)))
            /\ ret' = [ret EXCEPT ![c] = Ret("set", key, value, SetExpires(clock, duration), FALSE, FALSE)]
    /\ lastVisit' = NoVisit
    /\ UNCHANGED <<storeVars, tickVars, sweeperVars, pc, loc>>

\* -------------------------------------------------------------- Iterate
\* nil check, currentTime := time.Now().UnixNano(), start of the Range
Iterate(c, f) ==
    /\ Call(c)
    /\ IF f = Nil
       THEN /\ ret' = [ret EXCEPT ![c] = Ret("iterate", Nil, Nil, 0, FALSE, TRUE)]
            /\ UNCHANGED <<pc, loc>>
       ELSE /\ pc' = [pc EXCEPT ![c] = "iterRange"]
            /\ loc' = [loc EXCEPT ![c] = [NoLoc EXCEPT !.time = clock, !.range = RangeStart(items)]]
            /\ UNCHANGED ret
    /\ lastVisit' = NoVisit
    /\ UNCHANGED <<storeVars, items, tickVars, sweeperVars>>

\* one callback fn(key, value): an expired item goes to the Delete, any other
\* is handed to f, whose result (continue) the caller chooses
IterateVisit(c, k, continue) ==
    /\ pc[c] = "iterRange"
    /\ k \in RangeCandidates(loc[c].range)
    /\ LET item == RangeMap(loc[c].range)[k]
           seen == [loc[c] EXCEPT !.range = RangeVisit(@, k)]
       IN IF IterateExpired(item, loc[c].time)
          THEN /\ pc' = [pc EXCEPT ![c] = "iterDelete"]
               /\ loc' = [loc EXCEPT ![c] = [seen EXCEPT !.key = k]]
               /\ UNCHANGED ret
               /\ lastVisit' = NoVisit
          ELSE /\ lastVisit' = [caller |-> c, key |-> k, data |-> item.data,
                                expires |-> item.expires, at |-> clock]
               /\ IF continue
                  THEN /\ loc' = [loc EXCEPT ![c] = seen]
                       /\ UNCHANGED ret
                       /\ UNCHANGED pc
                  ELSE /\ pc' = [pc EXCEPT ![c] = "idle"]
                       /\ loc' = [loc EXCEPT ![c] = NoLoc]
                       /\ ret' = [ret EXCEPT ![c] = Ret("iterate", Nil, Nil, 0, FALSE, FALSE)]
    /\ UNCHANGED <<storeVars, items, tickVars, sweeperVars, ops>>

\* cacheStore.items.Delete(key); return true
IterateDelete(c) ==
    /\ pc[c] = "iterDelete"
    /\ items' = Delete(items, loc[c].key)
    /\ pc' = [pc EXCEPT ![c] = "iterRange"]
    /\ loc' = [loc EXCEPT ![c].key = Nil]
    /\ UNCHANGED ret
    /\ lastVisit' = NoVisit
    /\ UNCHANGED <<storeVars, tickVars, sweeperVars, ops>>

\* the Range is exhausted; return nil
IterateEnd(c) ==
    /\ pc[c] = "iterRange"
    /\ RangeDone(loc[c].range)
    /\ pc' = [pc EXCEPT ![c] = "idle"]
    /\ loc' = [loc EXCEPT ![c] = NoLoc]
    /\ ret' = [ret EXCEPT ![c] = Ret("iterate", Nil, Nil, 0, FALSE, FALSE)]
    /\ lastVisit' = NoVisit
    /\ UNCHANGED <<storeVars, items, tickVars, sweeperVars, ops>>

\* ------------------------------------------------------------ RemoveKey
RemoveKey(c, key) ==
    /\ Call(c)
    /\ IF key = Nil
       THEN /\ ret' = [ret EXCEPT ![c] = Ret("remove", key, Nil, 0, FALSE, TRUE)]
            /\ UNCHANGED items
       ELSE /\ items' = Delete(items, key)
            /\ ret' = [ret EXCEPT ![c] = Ret("remove", key, Nil, 0, FALSE, FALSE)]
    /\ lastVisit' = NoVisit
    /\ UNCHANGED <<storeVars, tickVars, sweeperVars, pc, loc>>

\* ------------------------------------------------------ CloseCacheStore
\* cacheStore.cancel()
CloseCacheStore(c) ==
    /\ Call(c)
    /\ cancelled' = TRUE
    /\ pc' = [pc EXCEPT ![c] = "closeClear"]
    /\ UNCHANGED ret
    /\ lastVisit' = NoVisit
    /\ UNCHANGED <<store, cleaningInterval, sweepers, items, tickVars, sweeperVars, loc>>

\* A Range call of another goroutine is executing on the map
RangeInFlight(c) ==
    \/ swPc \in {"range", "delete"}
    \/ \E d \in Callers \ {c} : pc[d] \in {"iterRange", "iterDelete"}

\* The outcomes of the plain, unsynchronized write  cacheStore.items = sync.Map{}.
\* With no Range call in flight the map is replaced by an empty one.  With a
\* Range call of another goroutine in flight the write is a data race on the
\* fields of the sync.Map: either the empty map is installed (and the Range
\* goes on walking the replaced map), or the racing call's write-back of its
\* internal state wins and the previous contents stay installed.
CloseOutcomes(c) == IF RangeInFlight(c) THEN {"cleared", "retained"} ELSE {"cleared"}

\* cacheStore.items = sync.Map{}
CloseClear(c) ==
    /\ pc[c] = "closeClear"
    /\ \E outcome \in CloseOutcomes(c) :
         IF outcome = "cleared"
         THEN /\ items' = EmptyMap
              /\ swRange' = IF swPc \in {"range", "delete"} THEN RangeDetach(swRange, items) ELSE swRange
              /\ loc' = [d \in Callers |->
                           IF pc[d] \in {"iterRange", "iterDelete"}
                           THEN [loc[d] EXCEPT !.range = RangeDetach(@, items)]
                           ELSE loc[d]]
         ELSE UNCHANGED <<items, swRange, loc>>
    /\ pc' = [pc EXCEPT ![c] = "idle"]
    /\ ret' = [ret EXCEPT ![c] = Ret("close", Nil, Nil, 0, FALSE, FALSE)]
    /\ lastVisit' = NoVisit
    /\ UNCHANGED <<storeVars, tickVars, swPc, currentTime, swKey, ops>>

Next ==
    \/ AdvanceClock
    \/ \E c \in Foreground, i \in Intervals : NewCacheStore(c, i)
    \/ SweeperTick
    \/ SweeperStop
    \/ \E k \in Keys : SweeperVisit(k)
    \/ SweeperDelete
    \/ SweeperRangeEnd
    \/ \E c \in Foreground, k \in KeyChoices \cup {Nil} : Get(c, k)
    \/ \E c \in Foreground : GetCheck(c)
    \/ \E c \in Foreground : GetDelete(c)
    \/ \E c \in Foreground, k \in KeyChoices \cup {Nil}, v \in ValChoices \cup {Nil}, d \in Durations : Set(c, k, v, d)
    \/ \E c \in Foreground, f \in {Nil, "f"} : Iterate(c, f)
    \/ \E c \in Foreground, k \in Keys, continue \in BOOLEAN : IterateVisit(c, k, continue)
    \/ \E c \in Foreground : IterateDelete(c)
    \/ \E c \in Foreground : IterateEnd(c)
    \/ \E c \in Foreground, k \in KeyChoices \cup {Nil} : RemoveKey(c, k)
    \/ \E c \in Foreground : CloseCacheStore(c)
    \/ \E c \in Foreground : CloseClear(c)

Spec == Init /\ [][Next]_vars

\* The steps of the Sweeper goroutine.  The Go scheduler runs a runnable
\* goroutine eventually (weak fairness of its steps); a select with several
\* ready cases picks one uniformly at random, so a ctx.Done() case that is
\* ready again and again is eventually the one taken (strong fairness).
SweeperNext ==
    \/ SweeperTick
    \/ SweeperStop
    \/ \E k \in Keys : SweeperVisit(k)
    \/ SweeperDelete
    \/ SweeperRangeEnd

\* The program with well-formed calls only: no nil argument (such a call
\* returns at once and touches nothing) and no duration that overflows.
ValidDurations == {d \in Durations : d + MaxTime <= MaxInt64}

FairNext ==
    \/ AdvanceClock
    \/ \E c \in Foreground, i \in Intervals : NewCacheStore(c, i)
    \/ SweeperNext
    \/ \E c \in Foreground, k \in KeyChoices : Get(c, k)
    \/ \E c \in Foreground : GetCheck(c)
    \/ \E c \in Foreground : GetDelete(c)
    \/ \E c \in Foreground, k \in KeyChoices, v \in ValChoices, d \in ValidDurations : Set(c, k, v, d)
    \/ \E c \in Foreground : Iterate(c, "f")
    \/ \E c \in Foreground, k \in Keys, continue \in BOOLEAN : IterateVisit(c, k, continue)
    \/ \E c \in Foreground : IterateDelete(c)
    \/ \E c \in Foreground : IterateEnd(c)
    \/ \E c \in Foreground, k \in KeyChoices : RemoveKey(c, k)
    \/ \E c \in Foreground : CloseCacheStore(c)
    \/ \E c \in Foreground : CloseClear(c)

FairSpec == Init /\ [][FairNext]_vars /\ WF_vars(SweeperNext) /\ SF_vars(SweeperStop)

\* The program when no caller reads: entries are written (with any duration,
\* the overflowing one included), removed and cleared, and only the Sweeper
\* ever looks at an expiration.
SweepNext ==
    \/ AdvanceClock
    \/ \E c \in Foreground, i \in Intervals : NewCacheStore(c, i)
    \/ SweeperNext
    \/ \E c \in Foreground, k \in KeyChoices, v \in ValChoices, d \in Durations : Set(c, k, v, d)
    \/ \E c \in Foreground, k \in KeyChoices : RemoveKey(c, k)
    \/ \E c \in Foreground : CloseCacheStore(c)
    \/ \E c \in Foreground : CloseClear(c)

SweepSpec == Init /\ [][SweepNext]_vars /\ WF_vars(SweeperNext) /\ SF_vars(SweeperStop)

\* Two callers on one store: the one that constructed it, which calls Get and
\* Iterate and closes it, and a writer that calls Set, each a goroutine of
\* its own, next to the Sweeper.
Readers == {"c1"}
Writers == Callers \ Readers

RaceNext ==
    \/ AdvanceClock
    \/ \E c \in Readers, i \in Intervals : NewCacheStore(c, i)
    \/ SweeperNext
    \/ \E c \in Readers, k \in KeyChoices : Get(c, k)
    \/ \E c \in Readers : GetCheck(c)
    \/ \E c \in Readers : GetDelete(c)
    \/ \E c \in Readers : Iterate(c, "f")
    \/ \E c \in Readers, k \in Keys, continue \in BOOLEAN : IterateVisit(c, k, continue)
    \/ \E c \in Readers : IterateDelete(c)
    \/ \E c \in Readers : IterateEnd(c)
    \/ \E c \in Writers, k \in KeyChoices, v \in ValChoices, d \in ValidDurations : Set(c, k, v, d)
    \/ \E c \in Readers : CloseCacheStore(c)
    \/ \E c \in Readers : CloseClear(c)

RaceSpec == Init /\ [][RaceNext]_vars

\* ================================================================ claims

\* C1: Round-trip within TTL.  A successful Set(k, v, d) leaves exactly the
\* item it built in the map under k; when the same caller's next call is
\* Get(k), the entry is still the one that Set stored (nothing touched k) and
\* the clock has not passed the stored expires, Get loads that entry and
\* returns (v, found = true, no error).
C1_RoundTrip ==
    [][\A c \in Callers :
         LET s == ret[c]
             stored == CachedItem(s.data, s.expires)
             t == ret'[c]
         IN /\ (\E d \in Durations : d > 0 /\ Set(c, t.key, t.data, d) /\ ~t.err) =>
                  /\ t.op = "set" /\ t.expires # 0
                  /\ t.key \in DOMAIN items'
                  /\ items'[t.key] = CachedItem(t.data, t.expires)
            /\ (s.op = "set" /\ ~s.err /\ s.expires # 0) =>
                  /\ (Get(c, s.key) /\ s.key \in DOMAIN items /\ items[s.key] = stored) =>
                        (pc'[c] = "getCheck" /\ loc'[c].key = s.key /\ loc'[c].item = stored)
                  /\ (pc[c] = "getCheck" /\ pc'[c] # "getCheck" /\ loc[c].key = s.key
                        /\ loc[c].item = stored /\ clock <= s.expires) =>
                        t = Ret("get", s.key, s.data, s.expires, TRUE, FALSE)
      ]_vars

\* C1 witness: right after a Set with a positive duration the caller's Get has
\* loaded the stored entry, at the very instant of its expiration
C1_Witness ==
    \E c \in Callers :
        /\ pc[c] = "getCheck"
        /\ ret[c].op = "set" /\ ~ret[c].err
        /\ loc[c].key = ret[c].key
        /\ loc[c].item = CachedItem(ret[c].data, ret[c].expires)
        /\ ret[c].expires > 0
        /\ clock = ret[c].expires

\* C2 as stated: a Get never returns a value for an entry stored with a
\* positive duration (expires # 0) once the clock is strictly greater than the
\* entry's stored expires.
C2_Original ==
    [][\A c \in Callers :
         (pc[c] = "getCheck" /\ pc'[c] = "idle") =>
             ~(loc[c].item.expires # 0 /\ clock > loc[c].item.expires)
      ]_vars

\* C2 amended: Expiration enforcement for entries whose stored expires is
\* positive (now + d did not overflow int64).  A Get that has loaded such an
\* entry and reads a clock strictly greater than its expires goes on to delete
\* the key and returns found = false with no error; every Get that returns a
\* value returns an entry that is not past a positive expires at that moment;
\* a Get with a non-nil key never reports an error.
C2_ExpirationEnforced ==
    [][\A c \in Callers :
         /\ (pc[c] = "getCheck" /\ pc'[c] # "getCheck"
               /\ loc[c].item.expires > 0 /\ clock > loc[c].item.expires) =>
               (pc'[c] = "getDelete" /\ ret'[c] = ret[c])
         /\ (pc[c] = "getDelete" /\ pc'[c] # "getDelete") =>
               /\ ret'[c] = Ret("get", loc[c].key, Nil, 0, FALSE, FALSE)
               /\ loc[c].key \notin DOMAIN items'
         /\ (pc[c] = "getCheck" /\ pc'[c] = "idle") =>
               /\ ret'[c].op = "get" /\ ret'[c].found /\ ~ret'[c].err
               /\ ~(ret'[c].expires > 0 /\ clock' > ret'[c].expires)
      ]_vars

\* C2 witness: a Get has found the entry it loaded past its positive expires
\* and is about to delete it
C2_Witness ==
    \E c \in Callers :
        /\ pc[c] = "getDelete"
        /\ loc[c].item.expires > 0
        /\ clock > loc[c].item.expires

\* C3: No expired entry escapes Iterate.  Whenever Iterate invokes
\* visit(k, v), the entry handed over is not expired relative to the clock at
\* the moment of the invocation (stated for entries with a positive expires).
C3_NoExpiredVisit ==
    (lastVisit.caller # Nil /\ lastVisit.expires > 0) => lastVisit.at <= lastVisit.expires

\* C4: Permanent entries.  The Sweeper never deletes an entry whose expires
\* is 0, in any interleaving of its steps with foreground operations.
C4_PermanentNeverSwept ==
    [][(swPc = "delete" /\ swPc' = "range" /\ swKey \in DOMAIN items) =>
          items[swKey].expires # 0
      ]_vars

\* C5: Per-key linearizability.  When the caller's last completed call is a
\* successful Set(k, v, d), its next call is Get(k), no other caller issued
\* anything in between and the clock is not past the new expires, the Get
\* finds the entry that Set stored, whatever the Sweeper did in between.
C5_SetThenGet ==
    [][\A c \in Callers :
         LET s == ret[c]
         IN (s.op = "set" /\ ~s.err /\ Get(c, s.key)
               /\ (s.expires = 0 \/ clock <= s.expires)) =>
               (s.key \in DOMAIN items /\ items[s.key] = CachedItem(s.data, s.expires))
      ]_vars

\* C6: Null rejection.  Get(nil), Set(nil, v, t), Set(k, nil, t),
\* RemoveKey(nil) and Iterate(nil) each return an error at once and leave the
\* map of entries exactly as it was.
C6_NullRejection ==
    [][\A c \in Callers :
         LET t == ret'[c]
         IN (\/ Get(c, Nil)
             \/ RemoveKey(c, Nil)
             \/ Iterate(c, Nil)
             \/ /\ t.key = Nil \/ t.data = Nil
                /\ \E d \in Durations : Set(c, t.key, t.data, d)) =>
                (t.err /\ pc'[c] = "idle" /\ items' = items)
      ]_vars

\* C6 witness: a Set with a nil value was rejected on a store that holds an entry
C6_Witness ==
    \E c \in Callers :
        /\ ret[c].op = "set" /\ ret[c].err
        /\ ret[c].key # Nil /\ ret[c].data = Nil
        /\ pc[c] = "idle"
        /\ items # EmptyMap

\* C7: Construction validation.  NewCacheStore(interval) returns an error, no
\* store and starts no Sweeper when interval <= 0; for interval > 0 it returns
\* a store with an empty map and exactly one Sweeper, Running.
C7_ConstructionValidation ==
    [][\A c \in Callers, i \in Intervals :
         NewCacheStore(c, i) =>
            IF i <= 0
            THEN /\ ret'[c].op = "new" /\ ret'[c].err
                 /\ store' = "nil" /\ sweepers' = 0 /\ swPc' = "none"
            ELSE /\ ret'[c].op = "new" /\ ~ret'[c].err
                 /\ store' = "open" /\ items' = EmptyMap /\ cleaningInterval' = i
                 /\ sweepers' = 1 /\ swPc' = "select" /\ ~cancelled'
      ]_vars

\* C7 witness: a store has just been constructed and its Sweeper is waiting
C7_Witness ==
    \E c \in Callers :
        /\ ret[c].op = "new" /\ ~ret[c].err
        /\ store = "open" /\ sweepers = 1 /\ swPc = "select" /\ ops = 0

\* C8: RemoveKey semantics.  RemoveKey(k) with a non-nil k succeeds; afterwards
\* k is absent, whatever its entry was, and every other key has the entry it
\* had; on an absent key the map is unchanged (so a second RemoveKey(k) in a
\* row changes nothing); the caller's following Get(k) returns found = false.
C8_RemoveKey ==
    [][\A c \in Callers, k \in Keys :
         /\ RemoveKey(c, k) =>
               /\ ret'[c] = Ret("remove", k, Nil, 0, FALSE, FALSE)
               /\ k \notin DOMAIN items'
               /\ \A x \in Keys \ {k} :
                     /\ (x \in DOMAIN items) <=> (x \in DOMAIN items')
                     /\ (x \in DOMAIN items) => (items'[x] = items[x])
               /\ (k \notin DOMAIN items) => (items' = items)
         /\ (Get(c, k) /\ ret[c] = Ret("remove", k, Nil, 0, FALSE, FALSE)) =>
               (ret'[c] = Ret("get", k, Nil, 0, FALSE, FALSE) /\ pc'[c] = "idle")
      ]_vars

\* C8 witness: a permanent entry has just been removed and the other key's
\* entry is still there
C8_Witness ==
    \E c \in Callers :
        /\ ret[c].op = "remove" /\ ~ret[c].err
        /\ ret[c].key \notin DOMAIN items
        /\ items # EmptyMap
        /\ ops = MaxOps

\* C9: Close clears everything.  When Close returns the map is empty,
\* whatever the Sweeper was doing when Close ran.
C9_CloseClears ==
    [][\A c \in Callers :
         (pc[c] = "closeClear" /\ pc'[c] = "idle") => (items' = EmptyMap)
      ]_vars

\* C10: Close is idempotent.  A Close that directly follows a Close of the
\* same caller leaves the store as the first one left it (Sweeper cancelled,
\* map empty) and reports no error.
C10_CloseIdempotent ==
    [][\A c \in Callers :
         (pc[c] = "closeClear" /\ pc'[c] = "idle" /\ ret[c].op = "close") =>
             (items' = items /\ cancelled' = cancelled /\ ~ret'[c].err)
      ]_vars

\* C11 as stated: Set has replace semantics.  A successful Set(k, v, d) leaves
\* under k exactly (data = v, expires = now + d when d > 0, 0 otherwise) and
\* leaves every other key's entry unchanged.
C11_Original ==
    [][\A c \in Callers :
         LET t == ret'[c]
         IN \A d \in Durations :
              (t.op = "set" /\ ~t.err /\ ops' = ops + 1 /\ Set(c, t.key, t.data, d)) =>
                 /\ t.key \in DOMAIN items'
                 /\ items'[t.key] = CachedItem(t.data, IF d > 0 THEN clock + d ELSE 0)
                 /\ \A x \in Keys \ {t.key} :
                       /\ (x \in DOMAIN items) <=> (x \in DOMAIN items')
                       /\ (x \in DOMAIN items) => (items'[x] = items[x])
      ]_vars

\* C11 amended: the same for every Set whose now + d does not overflow int64.
\* Whatever entry k had before (none, permanent, live, expired and unswept),
\* afterwards k holds (v, now + d) when d > 0, an entry that is not expired at
\* that moment, and (v, 0) when d <= 0; every other key keeps its entry.
C11_SetReplaces ==
    [][\A c \in Callers :
         LET t == ret'[c]
         IN \A d \in Durations :
              (t.op = "set" /\ ~t.err /\ ops' = ops + 1 /\ Set(c, t.key, t.data, d)
                 /\ clock + d <= MaxInt64) =>
                 /\ t.key \in DOMAIN items'
                 /\ items'[t.key] = CachedItem(t.data, IF d > 0 THEN clock + d ELSE 0)
                 /\ (d > 0) => (items'[t.key].expires > 0)
                 /\ ~GetExpired(items'[t.key], clock')
                 /\ \A x \in Keys \ {t.key} :
                       /\ (x \in DOMAIN items) <=> (x \in DOMAIN items')
                       /\ (x \in DOMAIN items) => (items'[x] = items[x])
      ]_vars

\* C11 witness: the Sweeper has found the entry of k expired and has not
\* deleted it yet; a Set has since replaced that entry by a permanent one
C11_Witness ==
    \E c \in Callers :
        /\ swPc = "delete"
        /\ ret[c].op = "set" /\ ~ret[c].err /\ ret[c].key = swKey
        /\ swKey \in DOMAIN items
        /\ items[swKey] = CachedItem(ret[c].data, 0)

\* C12: Iterate early stop.  With a non-nil visit, Iterate returns success;
\* once visit returns false the call ends and visits nothing more; an entry
\* that is expired when the scan meets it (positive expires, passed by the
\* clock) is not handed to visit but deleted, and the scan goes on; when the scan ends with nothing stored meanwhile,
\* every entry still in the map was handed to the callback, each key once.
C12_IterateEarlyStop ==
    [][\A c \in Callers :
         /\ \A k \in Keys :
              (pc[c] = "iterRange" /\ k \in DOMAIN RangeMap(loc[c].range)
                 /\ (IterateVisit(c, k, TRUE) \/ IterateVisit(c, k, FALSE))) =>
                 LET item == RangeMap(loc[c].range)[k]
                 IN /\ k \notin loc[c].range.seen
                    /\ IF item.expires > 0 /\ clock > item.expires
                       THEN /\ lastVisit'.caller = Nil
                            /\ pc'[c] = "iterDelete" /\ loc'[c].key = k
                       ELSE /\ lastVisit'.caller = c /\ lastVisit'.key = k
                            /\ lastVisit'.data = item.data
                    /\ IterateVisit(c, k, FALSE) =>
                          (pc'[c] # "iterRange" /\ (pc'[c] = "idle" => ~ret'[c].err))
         /\ (pc[c] = "iterDelete" /\ pc'[c] # "iterDelete") =>
               (pc'[c] = "iterRange" /\ loc[c].key \notin DOMAIN items')
         /\ lastVisit'.caller = c => pc[c] = "iterRange"
         /\ (pc[c] = "iterRange" /\ pc'[c] = "idle") =>
               /\ ret'[c] = Ret("iterate", Nil, Nil, 0, FALSE, FALSE)
               /\ (lastVisit'.caller = Nil /\ ~loc[c].range.det) =>
                     DOMAIN items \subseteq loc[c].range.seen
      ]_vars

\* C13: The Sweeper never removes a live entry.  Every entry that a delete of
\* the Sweeper removes is expired at that moment against the time the scan
\* captured (expires # 0 and expires < currentTime), also when a Set stored it
\* after the Sweeper had examined the key.
C13_SweeperDeletesExpired ==
    [][(swPc = "delete" /\ swPc' = "range" /\ swKey \in DOMAIN items) =>
          (items[swKey].expires # 0 /\ items[swKey].expires < currentTime)
      ]_vars

\* C14: Cancellation takes priority over scanning.  Once CloseCacheStore has
\* cancelled the context the Sweeper starts no new scan, even when a tick is
\* pending at the moment it waits in its select.
C14_NoScanAfterCancel ==
    [][(swPc = "select" /\ swPc' = "range") => ~cancelled]_vars

C17_GetFrame ==
    [][\A c \in Callers :
         LET k == loc[c].key
             item == loc[c].item
             expired == item.expires > 0 /\ clock > item.expires
         IN /\ (pc[c] = "idle" /\ ops' = ops + 1
                  /\ (pc'[c] = "getCheck" \/ ret'[c].op = "get")) =>
                  /\ items' = items
                  /\ (pc'[c] = "idle" /\ ret'[c].key # Nil) =>
                        /\ ret'[c] = Ret("get", ret'[c].key, Nil, 0, FALSE, FALSE)
                        /\ ret'[c].key \notin DOMAIN items
                  /\ (pc'[c] = "getCheck") =>
                        (loc'[c].key \in DOMAIN items /\ loc'[c].item = items[loc'[c].key])
            /\ (pc[c] = "getCheck" /\ pc'[c] # "getCheck") =>
                  /\ items' = items
                  /\ IF expired
                     THEN pc'[c] = "getDelete" /\ loc'[c] = loc[c]
                     ELSE pc'[c] = "idle"
                            /\ ret'[c] = Ret("get", k, item.data, item.expires, TRUE, FALSE)
            /\ (pc[c] = "getDelete" /\ pc'[c] # "getDelete") =>
                  /\ pc'[c] = "idle"
                  /\ ret'[c] = Ret("get", k, Nil, 0, FALSE, FALSE)
                  /\ k \notin DOMAIN items'
                  /\ \A x \in Keys \ {k} :
                        /\ (x \in DOMAIN items) <=> (x \in DOMAIN items')
                        /\ (x \in DOMAIN items) => (items'[x] = items[x])
      ]_vars

\* C17 witness: a Get has found the entry of its key expired and is about to
\* delete it, while the map holds an entry under another key
C17_Witness ==
    \E c \in Callers :
        /\ pc[c] = "getDelete"
        /\ loc[c].key \in DOMAIN items
        /\ items[loc[c].key] = loc[c].item
        /\ DOMAIN items \ {loc[c].key} # {}

\* C18: Operations after Close.  An entry stored by a successful Set issued
\* after Close is in the map, as Set stored it, for as long as the caller
\* issues no further call: a Get finds it while it is not expired, and it
\* stays in the map after its expiry, no Sweeper removing it.
C18_SetAfterClose ==
    \A c \in Callers :
        (cancelled /\ pc[c] = "idle" /\ ret[c].op = "set" /\ ~ret[c].err) =>
            /\ ret[c].key \in DOMAIN items
            /\ items[ret[c].key] = CachedItem(ret[c].data, ret[c].expires)

\* C19: Only Set adds entries.  Every step that is not a successful Set leaves
\* the map with a subset of its keys, each with the entry it had (Get,
\* Iterate, RemoveKey, Close and the Sweeper only shrink the key set, nothing
\* removed comes back); and once a Close has returned and the Sweeper is out
\* of its scan, with nothing Set since, the map is empty.
C19_OnlySetAdds ==
    /\ [][(\A c \in Callers : ~(ret'[c].op = "set" /\ ops' = ops + 1)) =>
            /\ DOMAIN items' \subseteq DOMAIN items
            /\ \A k \in DOMAIN items' : items'[k] = items[k]
         ]_vars
    /\ [](\A c \in Callers :
            (ret[c].op = "close" /\ pc[c] = "idle" /\ swPc \notin {"range", "delete"}) =>
                items = EmptyMap)

\* C20: Lazy deletion by a foreground caller never removes a live entry.
\* Whenever the Delete of Get's or Iterate's expiration path removes an entry,
\* that entry is expired at that moment; an entry that another caller's Set
\* stored after the lookup is still in the map afterwards.
C20_LazyDeleteKeepsLive ==
    [][\A c \in Callers :
         (pc[c] \in {"getDelete", "iterDelete"} /\ pc'[c] # pc[c]
            /\ loc[c].key \in DOMAIN items) =>
            (items[loc[c].key].expires > 0 /\ clock > items[loc[c].key].expires)
      ]_vars

\* C21: One expiry predicate everywhere.  Get (against the time it reads at
\* its test), Iterate and the Sweeper (each against the time it captured
\* before its Range) take the expiration path for an entry exactly when
\* expires > 0 and the observed time is strictly greater than expires; in
\* every other case, an observed time equal to expires and expires = 0
\* included, Get returns the entry, Iterate hands it to visit and the
\* Sweeper keeps it.
C21_OneExpiryPredicate ==
    [][/\ \A c \in Callers :
            /\ (pc[c] = "getCheck" /\ pc'[c] # "getCheck") =>
                  LET item == loc[c].item
                  IN IF item.expires > 0 /\ clock > item.expires
                     THEN pc'[c] = "getDelete"
                     ELSE /\ pc'[c] = "idle"
                          /\ ret'[c].found /\ ret'[c].data = item.data
            /\ pc[c] = "iterRange" =>
                  \A k \in DOMAIN RangeMap(loc[c].range) :
                      (IterateVisit(c, k, TRUE) \/ IterateVisit(c, k, FALSE)) =>
                          LET item == RangeMap(loc[c].range)[k]
                          IN IF item.expires > 0 /\ loc[c].time > item.expires
                             THEN pc'[c] = "iterDelete" /\ lastVisit'.caller = Nil
                             ELSE /\ pc'[c] # "iterDelete"
                                  /\ lastVisit'.caller = c /\ lastVisit'.key = k
                                  /\ lastVisit'.data = item.data
       /\ swPc = "range" =>
             \A k \in DOMAIN RangeMap(swRange) :
                 SweeperVisit(k) =>
                     LET item == RangeMap(swRange)[k]
                     IN IF item.expires > 0 /\ currentTime > item.expires
                        THEN swPc' = "delete" /\ swKey' = k
                        ELSE swPc' = "range" /\ items' = items
      ]_vars

\* C21 witness: at the very instant of an entry's expiration the Sweeper has
\* examined it and kept it, and a Get has loaded it and is at its test
C21_Witness ==
    \E c \in Callers :
        /\ pc[c] = "getCheck"
        /\ loc[c].item.expires > 0 /\ loc[c].item.expires = clock
        /\ swPc = "range" /\ currentTime = clock
        /\ loc[c].key \in swRange.seen \cap DOMAIN items
        /\ items[loc[c].key] = loc[c].item
====
